---- MODULE Spec2Model ----
(***************************************************************************)
(* A model of the Tablic simulator's rule engine: game/card.py (the card  *)
(* value model) and game/table.py (the Table: place, take, reset).        *)
(* A card is modelled by its identity (Card._id); Card.__eq__ compares    *)
(* identities, so membership tests on lists of cards are tests on ids.    *)
(***************************************************************************)
EXTENDS Integers, Sequences, FiniteSets, TLC

\* ------------------------------------------------------------------------
\* Bounds of the model.
\* ------------------------------------------------------------------------
\* Largest number of sub-collections in a `taken` argument.
MaxGroups == 2
\* Largest number of cards in a `taken` argument, all sub-collections together.
MaxTaken == 2
\* Largest sub-collection the sum rule is tried on in SpecSum.
MaxSumLen == 3
\* Largest hand a player is dealt in SpecPlayer.
MaxHand == 2
\* Card(id) is tried for every id from -NCARDS to MaxDecks * NCARDS - 1.
MaxDecks == 3
\* Largest n that cut_and_draw is called with.
MaxDraw == 5
\* Largest table, and largest `taken`, in SpecOrder.
MaxFlat == 3

\* ------------------------------------------------------------------------
\* game/card.py
\* ------------------------------------------------------------------------
NCARDS == 52
NSUITS == 4

\* _CARD_SCORE with the point of the 2 of clubs left out.
CARD_SCORE_no_2club ==
    << 1, 0, 0, 0, 0, 0, 0, 0, 0, 1, 1, 1, 1,
       1, 0, 0, 0, 0, 0, 0, 0, 0, 1, 1, 1, 1,
       1, 0, 0, 0, 0, 0, 0, 0, 0, 1, 1, 1, 1,
       1, 0, 0, 0, 0, 0, 0, 0, 0, 2, 1, 1, 1 >>

\* _CARD_SCORE, indexed by id + 1: A 2 3 4 5 6 7 8 9 10 J Q K of spades,
\* hearts, clubs, diamonds.
CARD_SCORE ==
    << 1, 0, 0, 0, 0, 0, 0, 0, 0, 1, 1, 1, 1,
       1, 0, 0, 0, 0, 0, 0, 0, 0, 1, 1, 1, 1,
       1, 1, 0, 0, 0, 0, 0, 0, 0, 1, 1, 1, 1,
       1, 0, 0, 0, 0, 0, 0, 0, 0, 2, 1, 1, 1 >>

\* One suit of _CARD_VALUES: A is 1 or 11, 2..10 their number, J Q K 12 13 14.
SUIT_VALUES ==
    << <<1, 11>>, <<2>>, <<3>>, <<4>>, <<5>>, <<6>>, <<7>>, <<8>>, <<9>>,
       <<10>>, <<12>>, <<13>>, <<14>> >>

\* _CARD_VALUES = 4 * [...]: the tuple of capture values of the card `id`.
CARD_VALUES(id) == SUIT_VALUES[(id % (NCARDS \div NSUITS)) + 1]

\* The cards the table is played with: the aces of spades, hearts and clubs
\* and the 10 of spades (ids of game/card.py: rank index + 13 * suit index).
TableDeck == {0, 13, 26, 9}

\* ------------------------------------------------------------------------
\* Helpers for Python lists
\* ------------------------------------------------------------------------
Range(s) == {s[i] : i \in 1..Len(s)}

\* `x in s` for a list s.
In(x, s) == \E i \in 1..Len(s) : s[i] = x

\* s[i:] with Python's 0-based i, as a sequence.
SliceFrom(s, i) == SubSeq(s, i + 1, Len(s))

RECURSIVE Sum(_)
Sum(s) == IF s = <<>> THEN 0 ELSE Head(s) + Sum(Tail(s))

\* list(itertools.chain.from_iterable(taken))
RECURSIVE Flatten(_)
Flatten(taken) ==
    IF taken = <<>> THEN <<>> ELSE Head(taken) \o Flatten(Tail(taken))

\* list.remove(x): drops the first occurrence of x.
RECURSIVE Remove(_, _)
Remove(s, x) ==
    IF s = <<>> THEN <<>>
    ELSE IF Head(s) = x THEN Tail(s)
    ELSE <<Head(s)>> \o Remove(Tail(s), x)

\* RemoveAll with the loop left after its first round.
RemoveAll_first(s, flat) ==
    IF flat = <<>> THEN s ELSE Remove(s, Head(flat))

\* RemoveAll as a set difference, the table built again in the order of the
\* ids: sorted(set(cards) - set(flat)).
RemoveAll_sorted(s, flat) ==
    LET kept == Range(s) \ Range(flat)
    IN  CHOOSE t \in [1..Cardinality(kept) -> kept] :
            \A i, j \in 1..Cardinality(kept) : i < j => t[i] < t[j]

\* for card in flat: cards.remove(card)
RECURSIVE RemoveAll(_, _)
RemoveAll(s, flat) ==
    IF flat = <<>> THEN s ELSE RemoveAll(Remove(s, Head(flat)), Tail(flat))

\* Product that takes only the first element of every tuple.
Product_first(tuples) ==
    IF \E i \in 1..Len(tuples) : tuples[i] = <<>> THEN <<>>
    ELSE << [i \in 1..Len(tuples) |-> tuples[i][1]] >>

\* itertools.product(*tuples): every choice of one element per tuple, in
\* itertools' order (the last position varies fastest).
RECURSIVE Product(_)
RECURSIVE Prefixed(_, _)
Prefixed(vs, rest) ==
    IF vs = <<>> THEN <<>>
    ELSE [i \in 1..Len(rest) |-> <<Head(vs)>> \o rest[i]] \o Prefixed(Tail(vs), rest)
Product(tuples) ==
    IF tuples = <<>> THEN << <<>> >>
    ELSE Prefixed(Head(tuples), Product(Tail(tuples)))

\* ------------------------------------------------------------------------
\* game/table.py
\* ------------------------------------------------------------------------
None == <<>>

VARIABLES
    cards,      \* Table.cards: the cards on the table, in play order
    history,    \* Table.history: every card placed or played since reset
    last,       \* Table.last: None, or <<card>>
    call,       \* the most recent call on the table: its operation and card,
                \* the exception it raised and at which check, and for an
                \* accepted take its `taken` argument and what it returned
    pre,        \* cards, history, last and captured as they were before that call
    captured,   \* the cards returned by successful takes since the last reset
    hand,       \* Player._hand
    collection, \* Player._collection
    clears,     \* Player._clears
    turn        \* the most recent call of Player.play: what the strategy
                \* returned (its card, the shape of its `take`, how many
                \* sub-collections and cards it asked for), what was raised,
                \* and _hand, _collection and _clears before the call

VARIABLES
    made,       \* the most recent call of Card(id): the id, what was raised,
                \* and the score and value of the card made (<<x>>, or None)
    _cards,     \* Deck._cards
    drawn,      \* the most recent call on the deck: n, the cut that
                \* random.randint chose, what was raised, the cards returned
    request     \* SpecOrder: the arguments of the take that was made

tableVars == <<cards, history, last, call, pre, captured>>
playerVars == <<hand, collection, clears, turn>>
cardVars == <<made, _cards, drawn>>
vars == <<tableVars, playerVars, cardVars, request>>

\* ------------------------------------------------------------------------
\* game/card.py: Card and Deck
\* ------------------------------------------------------------------------
NoCard == [op |-> "init", id |-> 0, raised |-> "ok",
           score |-> None, value |-> None]

\* Card.__init__
Card(id) ==
    made' = IF id \notin 0..(NCARDS - 1)
            THEN [NoCard EXCEPT !.op = "Card", !.id = id,
                                !.raised = "ValueError"]
            ELSE [NoCard EXCEPT !.op = "Card", !.id = id,
                                !.score = <<CARD_SCORE[id + 1]>>,
                                !.value = <<CARD_VALUES(id)>>]

\* Card.__eq__ of the card with identity `id`: `other` is a card, given by
\* its identity, or a bare integer; both compare with self._id.
CardEq(id, other) == id = other

NoDraw == [op |-> "init", n |-> 0, cut |-> 0, raised |-> "ok", cards |-> <<>>]

\* Deck.__init__ / Deck.reset: [Card(i) for i in range(_NCARDS)]
DeckInit ==
    /\ _cards = [i \in 1..NCARDS |-> i - 1]
    /\ drawn = NoDraw

\* Deck._validate_can_draw: TRUE when it raises ValueError.
_validate_can_draw(n) == n < 1 \/ n > Len(_cards)

\* s[-k:] and s[:-k] for k >= 0 (s[-0:] is s, s[:-0] is empty).
LastK(s, k) == IF k = 0 THEN s ELSE SubSeq(s, Len(s) - k + 1, Len(s))
ButLastK(s, k) == IF k = 0 THEN <<>> ELSE SubSeq(s, 1, Len(s) - k)

\* Deck.cut_and_draw, random.randint(0, len(self._cards) - 1) returning cut
cut_and_draw(n, cut) ==
    IF _validate_can_draw(n)
    THEN /\ drawn' = [NoDraw EXCEPT !.op = "cut_and_draw", !.n = n,
                                    !.raised = "ValueError"]
         /\ UNCHANGED _cards
    ELSE LET cutDeck == LastK(_cards, cut) \o ButLastK(_cards, cut)
         IN  /\ _cards' = SubSeq(cutDeck, n + 1, Len(cutDeck))
             /\ drawn' = [NoDraw EXCEPT !.op = "cut_and_draw", !.n = n,
                                        !.cut = cut,
                                        !.cards = SubSeq(cutDeck, 1, n)]

NoRequest == [played |-> None, taken |-> <<>>]

\* Table._cards_sum_to
_cards_sum_to(group, values) ==
    LET products == Product([i \in 1..Len(group) |-> CARD_VALUES(group[i])])
    IN  \E k \in 1..Len(products) : In(Sum(products[k]), values)

\* _validate_game_state without its second test (the history).
_validate_game_state_cards(card) == In(card, cards)

\* Table._validate_game_state: TRUE when it raises IllegalStateException.
_validate_game_state(card) == In(card, cards) \/ In(card, history)

\* FirstBad without the RULE 4 test (a card taken more than once).
RECURSIVE FirstBad_nodup(_, _)
FirstBad_nodup(flat, i) ==
    IF i > Len(flat) THEN 0
    ELSE IF ~In(flat[i], cards) THEN i
    ELSE FirstBad_nodup(flat, i + 1)

\* FirstBad with the loop started at the second card: enumerate(flat[1:]).
FirstBad_skip_first(flat, i) ==
    LET bad == {k \in (i + 1)..Len(flat) :
                   ~In(flat[k], cards) \/ In(flat[k], SliceFrom(flat, k))}
    IN  IF bad = {} THEN 0 ELSE CHOOSE k \in bad : \A m \in bad : k <= m

\* FirstBad as two loops: every card is tested for being on the table before
\* any card is tested for being taken twice.
FirstBad_table_first(flat, i) ==
    LET absent == {k \in i..Len(flat) : ~In(flat[k], cards)}
        twice  == {k \in i..Len(flat) : In(flat[k], SliceFrom(flat, k))}
    IN  IF absent # {} THEN CHOOSE k \in absent : \A m \in absent : k <= m
        ELSE IF twice # {} THEN CHOOSE k \in twice : \A m \in twice : k <= m
        ELSE 0

\* The loop of Table.take over enumerate(flat): the first index (1-based) at
\* which it raises, 0 when it runs to the end.
RECURSIVE FirstBad(_, _)
FirstBad(flat, i) ==
    IF i > Len(flat) THEN 0
    ELSE IF ~In(flat[i], cards) \/ In(flat[i], SliceFrom(flat, i)) THEN i
    ELSE FirstBad(flat, i + 1)

\* TakeCheck with RULE 1 and RULE 2 tested before _validate_game_state.
TakeCheck_rules_first(played, taken) ==
    LET flat == Flatten(taken)
        bad  == FirstBad(flat, 1)
    IN  IF Len(flat) < 1 THEN 2
        ELSE IF In(played, flat) THEN 3
        ELSE IF _validate_game_state(played) THEN 1
        ELSE IF Len(flat) > Len(cards) THEN 4
        ELSE IF bad # 0 THEN (IF ~In(flat[bad], cards) THEN 5 ELSE 6)
        ELSE IF \E g \in 1..Len(taken) :
                    ~_cards_sum_to(taken[g], CARD_VALUES(played)) THEN 7
        ELSE 0

\* The checks of Table.take in the order of the code: 0 when all pass,
\* otherwise the number of the raise statement that is reached
\* (1: _validate_game_state, 2: nothing taken, 3: played and taken,
\*  4: more than on the table, 5: not on table, 6: taken more than once,
\*  7: sum).
TakeCheck(played, taken) ==
    LET flat == Flatten(taken)
        bad  == FirstBad(flat, 1)
    IN  IF _validate_game_state(played) THEN 1
        ELSE IF Len(flat) < 1 THEN 2
        ELSE IF In(played, flat) THEN 3
        ELSE IF Len(flat) > Len(cards) THEN 4
        ELSE IF bad # 0 THEN (IF ~In(flat[bad], cards) THEN 5 ELSE 6)
        ELSE IF \E g \in 1..Len(taken) :
                    ~_cards_sum_to(taken[g], CARD_VALUES(played)) THEN 7
        ELSE 0

\* The exception class a raise statement of Table.take raises.
Raised(check) ==
    IF check = 0 THEN "ok"
    ELSE IF check = 1 THEN "IllegalState"
    ELSE "IllegalMove"

\* The module whose class statement defines the class that a raise statement
\* names: table.py raises the classes it defines itself, player.py the class
\* it imports from .exceptions.
ExceptionModule(raised) ==
    IF raised \in {"IllegalState", "IllegalMove"} THEN "game.table"
    ELSE "game.exceptions"

\* `except` with the class `kind` of game/exceptions.py catches a raised
\* exception when the class raised is that class (none of the classes
\* derives from another of them).
Caught(raised, kind) ==
    ExceptionModule(raised) = "game.exceptions" /\ raised = kind

\* The arguments the model calls take with: every way of cutting a list of
\* at most MaxTaken cards into at most MaxGroups sub-collections (empty ones
\* included).
Groups == UNION {[1..n -> TableDeck] : n \in 0..MaxTaken}
GroupLens == UNION {[1..k -> 0..MaxTaken] : k \in 0..MaxGroups}
Cut(flat, lens) ==
    [g \in 1..Len(lens) |->
        SubSeq(flat, Sum(SubSeq(lens, 1, g - 1)) + 1, Sum(SubSeq(lens, 1, g)))]
Takens ==
    {Cut(p[1], p[2]) : p \in {q \in Groups \X GroupLens : Sum(q[2]) = Len(q[1])}}

Snapshot == [cards |-> cards, history |-> history, last |-> last,
             captured |-> captured]

NoCall == [op |-> "init", card |-> None, taken |-> <<>>, raised |-> "ok",
           check |-> 0, cannot_take |-> <<>>, collected |-> <<>>,
           cleared |-> FALSE]

\* place without the call of _validate_game_state.
place_unchecked(card) ==
    /\ pre' = Snapshot
    /\ cards' = Append(cards, card)
    /\ history' = Append(history, card)
    /\ call' = [NoCall EXCEPT !.op = "place", !.card = <<card>>]
    /\ UNCHANGED <<last, captured>>

\* place that forgets history.append(card).
place_nohist(card) ==
    /\ pre' = Snapshot
    /\ IF _validate_game_state(card)
       THEN /\ call' = [NoCall EXCEPT !.op = "place", !.card = <<card>>,
                                      !.raised = "IllegalState", !.check = 1]
            /\ UNCHANGED <<cards, history, last, captured>>
       ELSE /\ cards' = Append(cards, card)
            /\ call' = [NoCall EXCEPT !.op = "place", !.card = <<card>>]
            /\ UNCHANGED <<history, last, captured>>

\* Table.place
place(card) ==
    /\ pre' = Snapshot
    /\ IF _validate_game_state(card)
       THEN /\ call' = [NoCall EXCEPT !.op = "place", !.card = <<card>>,
                                      !.raised = "IllegalState", !.check = 1]
            /\ UNCHANGED <<cards, history, last, captured>>
       ELSE /\ cards' = Append(cards, card)
            /\ history' = Append(history, card)
            /\ call' = [NoCall EXCEPT !.op = "place", !.card = <<card>>]
            /\ UNCHANGED <<last, captured>>

\* reset that leaves the history as it is.
reset_keep_history ==
    /\ pre' = Snapshot
    /\ cards' = <<>>
    /\ last' = None
    /\ captured' = {}
    /\ call' = [NoCall EXCEPT !.op = "reset"]
    /\ UNCHANGED history

\* Table.reset
reset ==
    /\ pre' = Snapshot
    /\ cards' = <<>>
    /\ history' = <<>>
    /\ last' = None
    /\ captured' = {}
    /\ call' = [NoCall EXCEPT !.op = "reset"]

\* The cards listed by the message "cannot take {cards} with {played}" of
\* RULE 5 (the sum rule, check 7): `cards` was bound again, to the string of
\* self.cards, on the line before the raise.
CannotTake(check) == IF check = 7 THEN cards ELSE <<>>

\* The two outcomes of take: the call raises at `check`, or it returns.
TakeRaises(played, check) ==
    call' = [NoCall EXCEPT !.op = "take", !.card = <<played>>,
                           !.raised = Raised(check), !.check = check,
                           !.cannot_take = CannotTake(check)]
TakeReturns(played, taken, cleared) ==
    call' = [NoCall EXCEPT !.op = "take", !.card = <<played>>,
                           !.taken = taken,
                           !.collected = <<played>> \o Flatten(taken),
                           !.cleared = cleared]

\* take with history.append(played) moved up, in front of the RULE 5 loop.
take_early(played, taken) ==
    LET check == TakeCheck(played, taken)
        flat  == Flatten(taken)
    IN  /\ pre' = Snapshot
        /\ IF check # 0
           THEN /\ TakeRaises(played, check)
                /\ history' = IF check = 7 THEN Append(history, played)
                                           ELSE history
                /\ UNCHANGED <<cards, last, captured>>
           ELSE /\ history' = Append(history, played)
                /\ cards' = RemoveAll(cards, flat)
                /\ TakeReturns(played, taken, Len(cards') = 0)
                /\ captured' = captured \cup Range(<<played>> \o flat)
                /\ UNCHANGED last

\* take with history.extend([played, *flat]) for history.append(played).
take_extend(played, taken) ==
    LET check == TakeCheck(played, taken)
        flat  == Flatten(taken)
    IN  /\ pre' = Snapshot
        /\ IF check # 0
           THEN /\ TakeRaises(played, check)
                /\ UNCHANGED <<cards, history, last, captured>>
           ELSE /\ history' = history \o <<played>> \o flat
                /\ cards' = RemoveAll(cards, flat)
                /\ TakeReturns(played, taken, Len(cards') = 0)
                /\ captured' = captured \cup Range(<<played>> \o flat)
                /\ UNCHANGED last

\* take with `cleared` computed before the taken cards are removed.
take_cleared_before(played, taken) ==
    LET check == TakeCheck(played, taken)
        flat  == Flatten(taken)
    IN  /\ pre' = Snapshot
        /\ IF check # 0
           THEN /\ TakeRaises(played, check)
                /\ UNCHANGED <<cards, history, last, captured>>
           ELSE /\ history' = Append(history, played)
                /\ cards' = RemoveAll(cards, flat)
                /\ TakeReturns(played, taken, Len(cards) = 0)
                /\ captured' = captured \cup Range(<<played>> \o flat)
                /\ UNCHANGED last

\* take that forgets history.append(played).
take_forget_played(played, taken) ==
    LET check == TakeCheck(played, taken)
        flat  == Flatten(taken)
    IN  /\ pre' = Snapshot
        /\ IF check # 0
           THEN /\ TakeRaises(played, check)
                /\ UNCHANGED <<cards, history, last, captured>>
           ELSE /\ cards' = RemoveAll(cards, flat)
                /\ TakeReturns(played, taken, Len(cards') = 0)
                /\ captured' = captured \cup Range(<<played>> \o flat)
                /\ UNCHANGED <<history, last>>

\* Table.take
take(played, taken) ==
    LET check == TakeCheck(played, taken)
        flat  == Flatten(taken)
    IN  /\ pre' = Snapshot
        /\ IF check # 0
           THEN /\ TakeRaises(played, check)
                /\ UNCHANGED <<cards, history, last, captured>>
           ELSE /\ history' = Append(history, played)
                /\ cards' = RemoveAll(cards, flat)
                /\ TakeReturns(played, taken, Len(cards') = 0)
                /\ captured' = captured \cup Range(<<played>> \o flat)
                /\ UNCHANGED last

\* ------------------------------------------------------------------------
\* game/player.py
\* ------------------------------------------------------------------------
NoTurn == [op |-> "init", play |-> None, shape |-> "nested", groups |-> 0,
           asked |-> 0, raised |-> "ok",
           hand |-> <<>>, collection |-> <<>>, clears |-> 0]

\* Player.__init__ / Player.reset
PlayerInit ==
    /\ hand = <<>>
    /\ collection = <<>>
    /\ clears = 0
    /\ turn = NoTurn

\* What a strategy can return as `take`: a collection of collections of
\* cards ("nested", one of Takens), a bare Card ("card"), or a list that
\* holds a Card where a sub-collection belongs ("cards").
Decisions ==
    [play : TableDeck, shape : {"nested"}, take : Takens]
        \cup [play : TableDeck, shape : {"card", "cards"}, take : {<<>>}]

\* isinstance(take, Collection)
IsCollection(d) == d.shape # "card"
\* all(isinstance(sub, Collection) for sub in take)
AllCollections(d) == d.shape = "nested"

\* The record of a call of play with the decision d that raised `raised`
\* ("ok" when it returned).
Turn(d, raised) ==
    [op |-> "play", play |-> <<d.play>>, shape |-> d.shape,
     groups |-> Len(d.take), asked |-> Len(Flatten(d.take)),
     raised |-> raised,
     hand |-> hand, collection |-> collection, clears |-> clears]

\* Player.score
score ==
    clears + Sum([i \in 1..Len(collection) |-> CARD_SCORE[collection[i] + 1]])

\* play that looks only at len(take) to decide that nothing is taken.
play_len_only(d) ==
    IF ~In(d.play, hand) \/ ~IsCollection(d) \/ ~AllCollections(d)
    THEN /\ turn' = Turn(d, "IllegalStrategy")
         /\ UNCHANGED <<hand, collection, clears>>
         /\ UNCHANGED tableVars
    ELSE /\ hand' = Remove(hand, d.play)
         /\ IF Len(d.take) = 0
            THEN /\ place(d.play)
                 /\ UNCHANGED <<collection, clears>>
            ELSE /\ take(d.play, d.take)
                 /\ IF call'.raised = "ok"
                    THEN /\ clears' = clears + (IF call'.cleared THEN 1 ELSE 0)
                         /\ collection' = collection \o call'.collected
                    ELSE UNCHANGED <<collection, clears>>
         /\ turn' = Turn(d, call'.raised)

\* play with self._hand.remove(play) moved up, in front of the isinstance
\* tests.
play_remove_first(d) ==
    IF ~In(d.play, hand)
    THEN /\ turn' = Turn(d, "IllegalStrategy")
         /\ UNCHANGED <<hand, collection, clears>>
         /\ UNCHANGED tableVars
    ELSE /\ hand' = Remove(hand, d.play)
         /\ IF ~IsCollection(d) \/ ~AllCollections(d)
            THEN /\ turn' = Turn(d, "IllegalStrategy")
                 /\ UNCHANGED <<collection, clears>>
                 /\ UNCHANGED tableVars
            ELSE /\ IF Len(d.take) = 0
                       \/ \A g \in 1..Len(d.take) : Len(d.take[g]) = 0
                    THEN /\ place(d.play)
                         /\ UNCHANGED <<collection, clears>>
                    ELSE /\ take(d.play, d.take)
                         /\ IF call'.raised = "ok"
                            THEN /\ clears' =
                                      clears + (IF call'.cleared THEN 1 ELSE 0)
                                 /\ collection' = collection \o call'.collected
                            ELSE UNCHANGED <<collection, clears>>
                 /\ turn' = Turn(d, call'.raised)

\* play with self._collection = collected for self._collection.extend.
play_assign(d) ==
    IF ~In(d.play, hand) \/ ~IsCollection(d) \/ ~AllCollections(d)
    THEN /\ turn' = Turn(d, "IllegalStrategy")
         /\ UNCHANGED <<hand, collection, clears>>
         /\ UNCHANGED tableVars
    ELSE /\ hand' = Remove(hand, d.play)
         /\ IF Len(d.take) = 0 \/ \A g \in 1..Len(d.take) : Len(d.take[g]) = 0
            THEN /\ place(d.play)
                 /\ UNCHANGED <<collection, clears>>
            ELSE /\ take(d.play, d.take)
                 /\ IF call'.raised = "ok"
                    THEN /\ clears' = clears + (IF call'.cleared THEN 1 ELSE 0)
                         /\ collection' = call'.collected
                    ELSE UNCHANGED <<collection, clears>>
         /\ turn' = Turn(d, call'.raised)

\* Player.play, the strategy having returned d.play, d.take
play(d) ==
    IF ~In(d.play, hand) \/ ~IsCollection(d) \/ ~AllCollections(d)
    THEN /\ turn' = Turn(d, "IllegalStrategy")
         /\ UNCHANGED <<hand, collection, clears>>
         /\ UNCHANGED tableVars
    ELSE /\ hand' = Remove(hand, d.play)
         /\ IF Len(d.take) = 0 \/ \A g \in 1..Len(d.take) : Len(d.take[g]) = 0
            THEN /\ place(d.play)
                 /\ UNCHANGED <<collection, clears>>
            ELSE /\ take(d.play, d.take)
                 /\ IF call'.raised = "ok"
                    THEN /\ clears' = clears + (IF call'.cleared THEN 1 ELSE 0)
                         /\ collection' = collection \o call'.collected
                    ELSE UNCHANGED <<collection, clears>>
         /\ turn' = Turn(d, call'.raised)

\* Table.__init__
TableInit ==
    /\ cards = <<>>
    /\ history = <<>>
    /\ last = None
    /\ call = NoCall
    /\ pre = [cards |-> <<>>, history |-> <<>>, last |-> None, captured |-> {}]
    /\ captured = {}

\* Nothing but the table and the player is in use.
Others == made = NoCard /\ DeckInit /\ request = NoRequest

\* Table() and Player(), nothing dealt.
Init ==
    /\ TableInit
    /\ PlayerInit
    /\ Others

Next ==
    /\ \/ \E card \in TableDeck : place(card)
       \/ \E played \in TableDeck, taken \in Takens : take(played, taken)
       \/ reset
    /\ UNCHANGED <<playerVars, cardVars, request>>

Spec == Init /\ [][Next]_vars

\* ------------------------------------------------------------------------
\* The sum rule on its own: a table that holds exactly the cards of one
\* sub-collection (placed in that order), and one take of all of them.
\* ------------------------------------------------------------------------
\* The spades A..K and the three other aces.
SumDeck == (0..12) \cup {13, 26, 39}

NoDup(s) == \A i, j \in 1..Len(s) : i # j => s[i] # s[j]

SumGroups ==
    {g \in UNION {[1..n -> SumDeck] : n \in 0..MaxSumLen} : NoDup(g)}

\* Table(), then place(card) for every card of a sub-collection.
InitSum ==
    /\ cards \in SumGroups
    /\ history = cards
    /\ last = None
    /\ call = NoCall
    /\ pre = [cards |-> cards, history |-> history, last |-> None,
              captured |-> {}]
    /\ captured = {}
    /\ PlayerInit
    /\ Others

\* take(played, [cards]) on the table as it was set up.
SumTake(played) ==
    /\ call.op = "init"
    /\ take(played, <<cards>>)
    /\ UNCHANGED <<playerVars, cardVars, request>>

NextSum == \E played \in SumDeck : SumTake(played)

SpecSum == InitSum /\ [][NextSum]_vars

\* ------------------------------------------------------------------------
\* One turn of a player: a table with cards placed on it, a player who was
\* dealt a hand and may hold cards captured in an earlier round, and one call
\* of play.
\* ------------------------------------------------------------------------
\* The cards of s in the order of their ids.
Ascending(s) == \A i, j \in 1..Len(s) : i < j => s[i] < s[j]

DistinctSeqs(n) == {h \in UNION {[1..k -> TableDeck] : k \in 0..n} : NoDup(h)}

\* _collection and _clears after no capture, and after a round in which the
\* player took 10-spades and A-hearts with A-spades and cleared the table.
EarlierRounds ==
    { [collection |-> <<>>, clears |-> 0],
      [collection |-> <<0, 9, 13>>, clears |-> 1] }

\* Table(), place(card) for some cards, in the order of their ids; Player(),
\* receive_cards(hand).
InitPlayer ==
    /\ cards \in {t \in DistinctSeqs(Cardinality(TableDeck)) : Ascending(t)}
    /\ history = cards
    /\ last = None
    /\ call = NoCall
    /\ pre = [cards |-> cards, history |-> history, last |-> None,
              captured |-> {}]
    /\ captured = {}
    /\ hand \in DistinctSeqs(MaxHand)
    /\ \E e \in EarlierRounds : collection = e.collection /\ clears = e.clears
    /\ turn = NoTurn
    /\ Others

NextPlayer ==
    /\ \E d \in Decisions : turn.op = "init" /\ play(d)
    /\ UNCHANGED <<cardVars, request>>

SpecPlayer == InitPlayer /\ [][NextPlayer]_vars

\* ------------------------------------------------------------------------
\* Cards and the deck: Card(id) for ids below, in and above one deck, and
\* cut_and_draw on the full deck in its original order.
\* ------------------------------------------------------------------------
CardIds == (0 - NCARDS)..(MaxDecks * NCARDS - 1)

NextCard ==
    /\ \/ \E id \in CardIds : Card(id) /\ UNCHANGED <<_cards, drawn>>
       \/ \E n \in 0..MaxDraw, cut \in 0..(Len(_cards) - 1) :
             /\ Len(_cards) = NCARDS
             /\ cut_and_draw(n, cut)
             /\ UNCHANGED made
    /\ UNCHANGED <<tableVars, playerVars, request>>

SpecCard == Init /\ [][NextCard]_vars

\* ------------------------------------------------------------------------
\* The order of the checks of take: a table with up to MaxFlat cards placed
\* on it in the order of their ids, and one take with one sub-collection (or
\* none), of five cards.
\* ------------------------------------------------------------------------
\* The four aces and the 10 of spades.
OrderDeck == TableDeck \cup {39}

OrderSeqs == UNION {[1..n -> OrderDeck] : n \in 0..MaxFlat}

InitOrder ==
    /\ cards \in {t \in OrderSeqs : Ascending(t)}
    /\ history = cards
    /\ last = None
    /\ call = NoCall
    /\ pre = [cards |-> cards, history |-> history, last |-> None,
              captured |-> {}]
    /\ captured = {}
    /\ PlayerInit
    /\ Others

OrderTake(played, taken) ==
    /\ call.op = "init"
    /\ take(played, taken)
    /\ request' = [played |-> <<played>>, taken |-> taken]
    /\ UNCHANGED <<playerVars, cardVars>>

NextOrder ==
    \E played \in OrderDeck, taken \in {<<>>} \cup {<<flat>> : flat \in OrderSeqs} :
        OrderTake(played, taken)

SpecOrder == InitOrder /\ [][NextOrder]_vars

\* ------------------------------------------------------------------------
\* Properties
\* ------------------------------------------------------------------------
IsCall == call.op \in {"place", "take"}
Accepted == IsCall /\ call.raised = "ok"
Rejected == IsCall /\ call.raised # "ok"
\* The card placed or played by the most recent call.
CallCard == call.card[1]

IsPrefix(s, t) == Len(s) <= Len(t) /\ SubSeq(t, 1, Len(s)) = s

\* There is a choice of one capture value per card of `group` whose sum is a
\* capture value of `played` (no card has more than two capture values).
SumExists(group, played) ==
    \E choice \in [1..Len(group) -> 1..2] :
        /\ \A i \in 1..Len(group) : choice[i] <= Len(CARD_VALUES(group[i]))
        /\ Sum([i \in 1..Len(group) |-> CARD_VALUES(group[i])[choice[i]]])
              \in Range(CARD_VALUES(played))

\* C1: a place or take that raises leaves cards, history and last as they
\* were before the call.
C1_RejectedLeavesTable ==
    Rejected =>
        /\ call.raised \in {"IllegalState", "IllegalMove"}
        /\ cards = pre.cards
        /\ history = pre.history
        /\ last = pre.last

\* A take was rejected by the sum rule on a table that holds cards and has
\* captured cards in its history.
C1_Witness ==
    /\ call.op = "take" /\ call.raised = "IllegalMove" /\ call.check = 7
    /\ Len(cards) >= 1 /\ Len(history) > Len(cards)

\* C2: in every reachable state no card occurs twice in cards and no card
\* occurs twice in history.
C2_NoDuplicates == NoDup(cards) /\ NoDup(history)

\* All four cards have been played, two of them are on the table.
C2_Witness == Len(history) = 4 /\ Len(cards) = 2

\* The conditions of C3 on `taken`, for a table that holds `tcards`.
C3_Legal(tcards, played, taken) ==
    LET flat == Flatten(taken)
    IN  /\ Len(flat) >= 1
        /\ played \notin Range(flat)
        /\ Range(flat) \subseteq Range(tcards)
        /\ NoDup(flat)
        /\ \A g \in 1..Len(taken) : SumExists(taken[g], played)

\* C3: take(played, taken) is accepted exactly when played is neither on the
\* table nor in history, something is taken, played is not taken, every taken
\* card is on the table, none is taken twice and every sub-collection passes
\* the sum rule; with played fresh every other request raises IllegalMove.
\* Stated of every request in every reachable state, and of the call made.
C3_TakeAccepted ==
    /\ \A played \in TableDeck, taken \in Takens :
          LET check == TakeCheck(played, taken)
              fresh == played \notin (Range(cards) \cup Range(history))
          IN  /\ (check = 0) <=> (fresh /\ C3_Legal(cards, played, taken))
              /\ (fresh /\ check # 0) => Raised(check) = "IllegalMove"
    /\ (call.op = "take" /\ call.raised = "ok") =>
          /\ CallCard \notin (Range(pre.cards) \cup Range(pre.history))
          /\ C3_Legal(pre.cards, CallCard, call.taken)
    /\ (call.op = "take" /\ call.raised # "ok"
            /\ CallCard \notin (Range(pre.cards) \cup Range(pre.history))) =>
          call.raised = "IllegalMove"

\* A take of two sub-collections was accepted.
C3_Witness ==
    /\ call.op = "take" /\ call.raised = "ok"
    /\ Len(call.taken) = 2 /\ Len(Flatten(call.taken)) = 2

\* C4: with the table holding exactly one sub-collection and the played card
\* not among it, take accepts exactly when some choice of one capture value
\* per card sums to a capture value of the played card; the ace of spades
\* takes [10-spades, A-hearts] and clears the table.
C4_SumRule ==
    /\ (call.op = "take" /\ call.check \notin {1, 2}) =>
          /\ call.check \in {0, 7}
          /\ (call.raised = "ok") <=> SumExists(pre.cards, CallCard)
    /\ (call.op = "take" /\ CallCard = 0 /\ pre.cards = <<9, 13>>) =>
          /\ call.raised = "ok"
          /\ call.cleared
          /\ call.collected = <<0, 9, 13>>

\* take(A-spades, [[10-spades, A-hearts]]) on the table {10-spades, A-hearts}.
C4_Witness ==
    /\ call.op = "take" /\ CallCard = 0 /\ pre.cards = <<9, 13>>
    /\ call.taken = << <<9, 13>> >> /\ call.raised = "ok" /\ cards = <<>>

\* C5: place(card) raises IllegalState exactly when card is on the table or
\* in history; otherwise it appends card to cards and to history.
C5_Place ==
    call.op = "place" =>
        LET used == CallCard \in (Range(pre.cards) \cup Range(pre.history))
        IN  /\ (call.raised = "IllegalState") <=> used
            /\ (call.raised = "ok") <=> ~used
            /\ call.raised = "ok" =>
                  /\ cards = Append(pre.cards, CallCard)
                  /\ history = Append(pre.history, CallCard)

\* place was rejected for a card that is in history and no longer on the table.
C5_Witness ==
    /\ call.op = "place" /\ call.raised = "IllegalState"
    /\ CallCard \notin Range(cards) /\ CallCard \in Range(history)

\* C6: an accepted place or take appends exactly its card to history; no
\* place or take removes or reorders what history held.
C6_HistoryGrows ==
    IsCall =>
        /\ IsPrefix(pre.history, history)
        /\ call.raised = "ok" => history = Append(pre.history, CallCard)
        /\ call.raised # "ok" => history = pre.history

\* An accepted take on a table with two earlier cards in its history.
C6_Witness ==
    /\ call.op = "take" /\ call.raised = "ok" /\ Len(pre.history) = 2
    /\ Len(Flatten(call.taken)) = 2

\* C7: after an accepted take no taken card is on the table, played is in
\* history and not on the table, and the cards returned are played followed
\* by the taken cards in the order given.
C7_Capture ==
    (call.op = "take" /\ call.raised = "ok") =>
        LET flat == Flatten(call.taken)
        IN  /\ \A i \in 1..Len(flat) : ~In(flat[i], cards)
            /\ In(CallCard, history)
            /\ ~In(CallCard, cards)
            /\ call.collected = <<CallCard>> \o flat

\* Two cards were taken in the reverse of their order on the table.
C7_Witness ==
    /\ call.op = "take" /\ call.raised = "ok"
    /\ Len(pre.cards) = 3
    /\ \E i, j \in 1..Len(pre.cards) :
          i < j /\ Flatten(call.taken) = <<pre.cards[j], pre.cards[i]>>

\* C8: the cleared flag of an accepted take is true exactly when the table
\* is empty after the taken cards are removed.
C8_Cleared ==
    (call.op = "take" /\ call.raised = "ok") =>
        /\ call.cleared <=> (cards = <<>>)
        /\ call.cleared <=> (Range(pre.cards) \subseteq Range(Flatten(call.taken)))

\* An accepted take left a card on the table and returned cleared false.
C8_Witness ==
    /\ call.op = "take" /\ call.raised = "ok"
    /\ ~call.cleared /\ Len(cards) >= 1

C10_NoReplay ==
    Accepted =>
        ({CallCard} \cup Range(Flatten(call.taken))) \cap pre.captured = {}

\* A captured card was offered again, with cards on the table, and refused.
C10_Witness ==
    /\ Rejected /\ CallCard \in pre.captured
    /\ Len(cards) >= 1 /\ Cardinality(captured) >= 2

\* C11: after reset, cards and history are empty and last is None, whatever
\* the table held; a reset of a table that is already reset changes nothing.
C11_Reset ==
    call.op = "reset" =>
        /\ cards = <<>> /\ history = <<>> /\ last = None
        /\ (pre.cards = <<>> /\ pre.history = <<>> /\ pre.last = None) =>
              (cards = pre.cards /\ history = pre.history /\ last = pre.last)

\* reset of a table that held a card and had captured cards in its history.
C11_Witness ==
    /\ call.op = "reset" /\ Len(pre.cards) >= 1
    /\ Len(pre.history) > Len(pre.cards) /\ cards = <<>> /\ history = <<>>

\* C12 (as claimed): after an accepted place or take, last is the card that
\* was placed or played. Neither method assigns Table.last.
C12_LastIsPlayed == Accepted => last = <<CallCard>>

\* The card the strategy chose in the most recent call of play.
TurnCard == turn.play[1]

\* The score and the capture values of a card as the rules state them, from
\* its rank (id mod 13: 0 is the ace, 9 the ten, 10 11 12 are J Q K) and the
\* two exceptions, the 2 of clubs (27) and the 10 of diamonds (48).
ScoreRule(id) ==
    IF id = 48 THEN 2
    ELSE IF id = 27 THEN 1
    ELSE IF (id % 13) \in {0, 9, 10, 11, 12} THEN 1
    ELSE 0
ValueRule(id) ==
    LET rank == id % 13
    IN  IF rank = 0 THEN <<1, 11>>
        ELSE IF rank <= 9 THEN <<rank + 1>>
        ELSE <<rank + 2>>

\* C13: a play that is not refused as IllegalStrategy calls place(played)
\* when the strategy asked for no card (`take` empty, or only empty
\* sub-collections), and then leaves _collection and _clears alone; it calls
\* take(played, take) otherwise; after a play that returned, the played card
\* is not in the hand.
C13_Routing ==
    (turn.op = "play" /\ turn.raised # "IllegalStrategy") =>
        /\ call.card = turn.play
        /\ turn.raised = call.raised
        /\ turn.asked = 0 =>
              /\ call.op = "place"
              /\ collection = turn.collection
              /\ clears = turn.clears
        /\ turn.asked > 0 =>
              /\ call.op = "take"
              /\ call.raised = "ok" => Len(call.taken) = turn.groups
        /\ turn.raised = "ok" => ~In(TurnCard, hand)

\* The strategy returned two empty sub-collections and the card was placed,
\* another card staying in the hand.
C13_Witness ==
    /\ turn.op = "play" /\ turn.groups = 2 /\ turn.asked = 0
    /\ call.op = "place" /\ call.raised = "ok"
    /\ Len(hand) = 1 /\ Len(cards) >= 2

\* C14: play raises IllegalStrategy when the chosen card is not in the hand,
\* when `take` is no collection, and when an element of `take` is no
\* collection; then no method of the table was called and the table, the
\* hand, the collection and the clear counter are as before.
C14_IllegalStrategy ==
    turn.op = "play" =>
        /\ (~In(TurnCard, turn.hand) \/ turn.shape # "nested") =>
              turn.raised = "IllegalStrategy"
        /\ turn.raised = "IllegalStrategy" =>
              /\ call.op = "init"
              /\ cards = pre.cards /\ history = pre.history /\ last = pre.last
              /\ hand = turn.hand
              /\ collection = turn.collection
              /\ clears = turn.clears

\* The card was in the hand and `take` was a list of cards: IllegalStrategy,
\* with cards on the table and in the collection.
C14_Witness ==
    /\ turn.op = "play" /\ turn.raised = "IllegalStrategy"
    /\ turn.shape = "cards" /\ In(TurnCard, hand)
    /\ Len(cards) >= 1 /\ Len(collection) >= 1

\* C15: a capture made through play appends the cards take returned (played,
\* then the taken cards) to _collection and adds one to _clears exactly when
\* it emptied the table; score is _clears plus the scores of the collected
\* cards.
C15_Collect ==
    /\ (turn.op = "play" /\ call.op = "take" /\ call.raised = "ok") =>
          /\ call.collected = <<TurnCard>> \o Flatten(call.taken)
          /\ collection = turn.collection \o call.collected
          /\ clears = turn.clears + (IF cards = <<>> THEN 1 ELSE 0)
    /\ score = clears
                 + Sum([i \in 1..Len(collection) |-> ScoreRule(collection[i])])

\* A second capture by a player who had cleared the table before: it clears
\* the table again.
C15_Witness ==
    /\ turn.op = "play" /\ call.op = "take" /\ call.raised = "ok"
    /\ Len(turn.collection) = 3 /\ Len(collection) = 6 /\ clears = 2
    /\ score = 8

\* C16: Card(id) raises only for a negative id; every id >= 0, also one of
\* 52 or more, makes a card with the score and the capture values of
\* id mod 52, equal to the integer id and unequal to the card id mod 52 when
\* that is another id.
C16_AnyDeck ==
    made.op = "Card" =>
        /\ made.raised = "ValueError" <=> made.id < 0
        /\ made.id >= 0 =>
              /\ made.score = <<ScoreRule(made.id % NCARDS)>>
              /\ made.value = <<ValueRule(made.id % NCARDS)>>
              /\ CardEq(made.id, made.id)
              /\ made.id # made.id % NCARDS =>
                    ~CardEq(made.id, made.id % NCARDS)

\* C17: for every id in 0..51 the score of Card(id) is 2 for the 10 of
\* diamonds, 1 for the 2 of clubs and for every other A, 10, J, Q, K, and 0
\* otherwise; its capture values are (1, 11) for an ace, (n) for the ranks 2
\* to 10 and (12), (13), (14) for J, Q, K; the 52 scores sum to 22.
C17_ScoreTable ==
    /\ (made.op = "Card" /\ made.id \in 0..(NCARDS - 1)) =>
          /\ made.raised = "ok"
          /\ made.score = <<ScoreRule(made.id)>>
          /\ made.value = <<ValueRule(made.id)>>
    /\ Len(CARD_SCORE) = NCARDS
    /\ Sum(CARD_SCORE) = 22

\* Card(27), the 2 of clubs, was made: it scores 1 and captures as 2.
C17_Witness ==
    made.op = "Card" /\ made.id = 27 /\ made.score = <<1>>
    /\ made.value = <<ValueRule(27)>> /\ ValueRule(27) = <<2>>

\* C18: every exception place and take raise is an instance of a class of
\* game/exceptions.py: IllegalStateException for a card already used,
\* IllegalMoveException for a broken rule, so that `except` with those
\* classes catches it.
C18_ExceptionsModule ==
    Rejected =>
        /\ ExceptionModule(call.raised) = "game.exceptions"
        /\ call.check = 1 => Caught(call.raised, "IllegalState")
        /\ call.check > 1 => Caught(call.raised, "IllegalMove")

\* C19: whatever the cut, cut_and_draw(n) on the full deck in order returns
\* the n identities just below the identity of the card now at the front,
\* ascending, and leaves the other 52 - n cards in cyclic order from that
\* front card, none lost and none twice.
C19_CutAndDraw ==
    (drawn.op = "cut_and_draw" /\ drawn.raised = "ok") =>
        LET front == _cards[1]
        IN  /\ drawn.cards = [i \in 1..drawn.n |-> front - drawn.n + i - 1]
            /\ _cards = [j \in 1..(NCARDS - drawn.n) |->
                            (front + j - 1) % NCARDS]
            /\ NoDup(drawn.cards \o _cards)
            /\ Range(drawn.cards \o _cards) = 0..(NCARDS - 1)

\* The number (1 to 7) of the rule that rejects take(played, taken) when the
\* rules are tried one after the other, each on the whole request; 0 when
\* none is broken.
StrictOrder(played, taken) ==
    LET flat == Flatten(taken)
    IN  IF In(played, pre.history) THEN 1
        ELSE IF flat = <<>> THEN 2
        ELSE IF In(played, flat) THEN 3
        ELSE IF Len(flat) > Len(pre.cards) THEN 4
        ELSE IF \E i \in 1..Len(flat) : ~In(flat[i], pre.cards) THEN 5
        ELSE IF ~NoDup(flat) THEN 6
        ELSE IF \E g \in 1..Len(taken) : ~SumExists(taken[g], played) THEN 7
        ELSE 0

\* A card of `flat` that is not on the table, or that comes again later.
Offends(flat, i) ==
    \/ ~In(flat[i], pre.cards)
    \/ \E j \in (i + 1)..Len(flat) : flat[j] = flat[i]

\* As StrictOrder, but with rules 5 and 6 tried together card by card: the
\* first offending card decides, 5 if it is not on the table and 6 if it is.
PerCardOrder(played, taken) ==
    LET flat == Flatten(taken)
        offenders == {i \in 1..Len(flat) : Offends(flat, i)}
        first == CHOOSE i \in offenders : \A k \in offenders : i <= k
    IN  IF In(played, pre.history) THEN 1
        ELSE IF flat = <<>> THEN 2
        ELSE IF In(played, flat) THEN 3
        ELSE IF Len(flat) > Len(pre.cards) THEN 4
        ELSE IF offenders # {}
             THEN (IF ~In(flat[first], pre.cards) THEN 5 ELSE 6)
        ELSE IF \E g \in 1..Len(taken) : ~SumExists(taken[g], played) THEN 7
        ELSE 0

\* C20 as stated: the rule that rejects a take is the first broken one in
\* the order 1 to 7, so that a request with a repeated card and a card that
\* is not on the table is rejected by rule 5.
C20_StrictOrder ==
    request.played # None =>
        call.check = StrictOrder(request.played[1], request.taken)

\* C20, amended: the rule that rejects a take is the first broken one in the
\* order 1, 2, 3, 4, then rules 5 and 6 card by card in the order of the
\* flattened `taken` (the first card that is not on the table or comes again
\* later decides: rule 5 if it is not on the table, rule 6 otherwise), then
\* rule 7.
C20_PerCardOrder ==
    request.played # None =>
        /\ call.check = PerCardOrder(request.played[1], request.taken)
        /\ call.raised = (IF call.check = 0 THEN "ok"
                          ELSE IF call.check = 1 THEN "IllegalState"
                          ELSE "IllegalMove")

\* A card on the table asked for twice, then a card that is not on the
\* table: rejected by rule 6.
C20_Witness ==
    /\ request.played # None /\ Len(request.taken) = 1
    /\ call.check = 6
    /\ LET flat == request.taken[1]
       IN  /\ Len(flat) = 3
           /\ flat[1] = flat[2] /\ In(flat[1], cards)
           /\ ~In(flat[3], cards)

\* C21: when take raises because a sub-collection fails the sum rule, the
\* message lists the cards of that sub-collection, and the played card.
C21_NamesOffender ==
    (request.played # None /\ call.check = 7) =>
        LET failing == {g \in 1..Len(request.taken) :
                           ~SumExists(request.taken[g], request.played[1])}
            first == CHOOSE g \in failing : \A k \in failing : g <= k
        IN  /\ call.cannot_take = request.taken[first]
            /\ call.card = request.played

\* C22: when the table rejects the move of play (IllegalMove from take,
\* IllegalState from place or take), the hand, the collection and the clear
\* counter are as they were before the call; the card is still in the hand.
C22_RejectedKeepsHand ==
    (turn.op = "play" /\ turn.raised \in {"IllegalMove", "IllegalState"}) =>
        /\ hand = turn.hand
        /\ collection = turn.collection
        /\ clears = turn.clears
        /\ In(TurnCard, hand)

\* C23: in every state reached from the empty table by place, take and
\* reset, the cards of history are the cards on the table together with the
\* cards returned by the accepted takes since the last reset, and no card is
\* both on the table and returned.
C23_HistoryLedger ==
    /\ Range(history) = Range(cards) \cup captured
    /\ Range(cards) \cap captured = {}
    /\ Range(cards) \subseteq Range(history)

\* A take has returned cards, another card lies on the table, and the whole
\* deck has been used.
C23_Witness ==
    /\ call.op = "take" /\ call.raised = "ok"
    /\ Cardinality(captured) >= 2 /\ Len(cards) >= 1
    /\ Range(history) = TableDeck

\* C24: an accepted take removes from cards exactly the flattened taken
\* cards; every other card stays, in the order the cards had before.
C24_OthersRemain ==
    (call.op = "take" /\ call.raised = "ok") =>
        LET flat == Flatten(call.taken)
            Stays(c) == ~In(c, flat)
        IN  /\ cards = SelectSeq(pre.cards, Stays)
            /\ Range(cards) = Range(pre.cards) \ Range(flat)
            /\ Len(cards) = Len(pre.cards) - Len(flat)

\* The first card of the table was taken; the two cards that stay were not
\* placed in the order of their ids.
C24_Witness ==
    /\ call.op = "take" /\ call.raised = "ok"
    /\ In(pre.cards[1], Flatten(call.taken))
    /\ Len(cards) = 2 /\ cards[1] > cards[2]

\* The checks of take without the test len(flat) > len(self.cards).
TakeCheckUncounted(played, taken) ==
    LET flat == Flatten(taken)
        bad  == FirstBad(flat, 1)
    IN  IF _validate_game_state(played) THEN 1
        ELSE IF Len(flat) < 1 THEN 2
        ELSE IF In(played, flat) THEN 3
        ELSE IF bad # 0 THEN (IF ~In(flat[bad], cards) THEN 5 ELSE 6)
        ELSE IF \E g \in 1..Len(taken) :
                    ~_cards_sum_to(taken[g], CARD_VALUES(played)) THEN 7
        ELSE 0

\* C25: in every reachable state, a request with more taken cards than the
\* table holds has a taken card that is not on the table or a repeated one,
\* so take without the cardinality check accepts the same requests, raises
\* the same class for the others and leaves the same state.
C25_CountRedundant ==
    \A played \in TableDeck, taken \in Takens :
        LET flat == Flatten(taken)
            counted == TakeCheck(played, taken)
            uncounted == TakeCheckUncounted(played, taken)
        IN  /\ Len(flat) > Len(cards) =>
                  \/ \E i \in 1..Len(flat) : ~In(flat[i], cards)
                  \/ ~NoDup(flat)
            /\ (counted = 0) <=> (uncounted = 0)
            /\ Raised(counted) = Raised(uncounted)
            /\ counted = 4 => uncounted \in {5, 6}
            /\ counted # 4 => uncounted = counted

\* A take of more cards than the table held was rejected by the cardinality
\* check, with a card on the table.
C25_Witness ==
    /\ call.op = "take" /\ call.check = 4
    /\ Len(cards) = 1

====
